---- MODULE Spec2Model ----
(***************************************************************************)
(* The Martingale betting process of martingale_simulation.py.             *)
(*                                                                         *)
(* Money amounts are integer multiples of one unit, on which the float     *)
(* arithmetic of the program is exact; the rounding that amounts without   *)
(* an exact binary representation (0.03, 0.01) undergo is not modelled.    *)
(* A probability is the numerator of a fraction over ProbScale, and a draw *)
(* of random.random() is a numerator in 0..ProbScale-1, a value of [0, 1). *)
(***************************************************************************)
EXTENDS Integers, Sequences, FiniteSets, TLC

\* Bounds of the explored instances.
MaxBalance == 7
MaxBet     == 2
MaxLimit   == 4
MaxRounds  == 6
MaxCalls   == 3

\* Bounds of the explored ensembles.
MaxSims       == 2
MaxEnsBalance == 3
MaxEnsLimit   == 2
MaxEnsRounds  == 2
MaxLists      == 3

\* ROULETTE_WIN_PROB = 18 / 37
ProbScale         == 37
ROULETTE_WIN_PROB == 18

WinProbs == {0, ROULETTE_WIN_PROB, ProbScale}
Draws    == 0 .. (ProbScale - 1)

\* The worked example of the specification: 100 units, bet 1, table limit 8.
Scenario == [initial_balance |-> 100, initial_bet |-> 1, table_limit |-> 8]

Params ==
    [initial_balance : 1 .. MaxBalance,
     initial_bet     : 1 .. MaxBet,
     table_limit     : 1 .. MaxLimit]
    \cup {Scenario}

\* Parameters that the constructor accepts although they are not positive.
AnyParams ==
    [initial_balance : (-1) .. MaxBalance,
     initial_bet     : (-1) .. MaxBet,
     table_limit     : (-1) .. MaxLimit]

\* Arguments of run_simulations; main() passes ROULETTE_WIN_PROB.
EnsArgs ==
    [initial_balance : 1 .. MaxEnsBalance,
     initial_bet     : {1},
     win_prob        : {ROULETTE_WIN_PROB},
     table_limit     : 1 .. MaxEnsLimit,
     sim_count       : 1 .. MaxSims]

\* The draws followed in an ensemble: the two ends of [0, 1).
EnsDraws == {0, ProbScale - 1}

\* run_simulations has not been called
NoArgs ==
    [initial_balance |-> 0, initial_bet |-> 0, win_prob |-> 0,
     table_limit |-> 0, sim_count |-> 0]

VARIABLES
    self,      \* the Martingale object: its eight attributes
    pc,        \* "idle": outside simulate();  "loop": at the while test
    log,       \* per round played since reset(): the stake and the outcome
    returns,   \* the object as each simulate() since reset() returned it
    last,      \* the operation performed last
    args,      \* the arguments of the running call of run_simulations
    sims,      \* the objects of the ensemble in list order; balance_history
               \* holds a reference to a list of heap
    heap,      \* the list objects created so far, by reference
    elog,      \* per object of the ensemble: the outcomes of its rounds since its reset()
    epc        \* run_simulations: "none", "next", "loop" or "returned"

single == <<self, pc, log, returns, last>>
ens    == <<args, sims, heap, elog, epc>>
vars   == <<self, pc, log, returns, last, args, sims, heap, elog, epc>>

----------------------------------------------------------------------------
\* reset() that appends to the old history instead of replacing it
resetKeepHistory(s) ==
    [s EXCEPT !.balance         = s.initial_balance,
              !.current_bet     = s.initial_bet,
              !.balance_history = Append(@, s.initial_balance),
              !.rounds_played   = 0]

\* Martingale.reset
reset(s) ==
    [s EXCEPT !.balance         = s.initial_balance,
              !.current_bet     = s.initial_bet,
              !.balance_history = <<s.initial_balance>>,
              !.rounds_played   = 0]

\* Martingale.__init__
Martingale(initial_balance, initial_bet, win_prob, table_limit) ==
    reset([initial_balance |-> initial_balance,
           initial_bet     |-> initial_bet,
           win_prob        |-> win_prob,
           table_limit     |-> table_limit,
           balance         |-> 0,
           current_bet     |-> 0,
           balance_history |-> <<>>,
           rounds_played   |-> 0])

\* the while test with "or" for "and"
LoopGuardOr(s) ==
    s.balance >= s.current_bet \/ s.table_limit >= s.current_bet

\* the while test without the table limit
LoopGuardNoLimit(s) == s.balance >= s.current_bet

\* the while test without the balance
LoopGuardNoBalance(s) == s.table_limit >= s.current_bet

\* while (self.balance >= self.current_bet and self.table_limit >= self.current_bet)
LoopGuard(s) ==
    s.balance >= s.current_bet /\ s.table_limit >= s.current_bet

\* the comparison of the trial turned round
TrialInverted(draw, win_prob) == draw >= win_prob

\* random.random() <= self.win_prob
Trial(draw, win_prob) == draw <= win_prob

\* a round that does not take the stake
StakeNone(s) == s

\* self.balance -= self.current_bet
Stake(s) == [s EXCEPT !.balance = @ - s.current_bet]

\* a win that doubles the bet as a loss does
WinDoublesBet(s) ==
    [s EXCEPT !.balance     = @ + 2 * s.current_bet,
              !.current_bet = @ * 2]

\* a win that keeps the doubled bet
WinKeepBet(s) == [s EXCEPT !.balance = @ + 2 * s.current_bet]

\* a win that pays the stake back once
WinSinglePayout(s) ==
    [s EXCEPT !.balance     = @ + s.current_bet,
              !.current_bet = s.initial_bet]

\* the winning branch
Win(s) ==
    [s EXCEPT !.balance     = @ + 2 * s.current_bet,
              !.current_bet = s.initial_bet]

\* a loss that doubles the base bet as well
LoseDoublesInitial(s) ==
    [s EXCEPT !.current_bet = @ * 2, !.initial_bet = @ * 2]

\* a loss that leaves the bet as it is
LoseNoDouble(s) == s

\* the losing branch
Lose(s) == [s EXCEPT !.current_bet = @ * 2]

\* an iteration that forgets to count the round
RecordNoCount(s) == [s EXCEPT !.balance_history = Append(@, s.balance)]

\* the bookkeeping that ends an iteration
Record(s) ==
    [s EXCEPT !.balance_history = Append(@, s.balance),
              !.rounds_played   = @ + 1]

\* one iteration of the while loop of simulate()
PlayRound(s, draw) ==
    LET staked   == Stake(s)
        resolved == IF Trial(draw, s.win_prob) THEN Win(staked) ELSE Lose(staked)
    IN  Record(resolved)

----------------------------------------------------------------------------
\* no call of run_simulations is under way
NoEnsemble ==
    /\ args = NoArgs
    /\ sims = <<>>
    /\ heap = <<>>
    /\ elog = <<>>
    /\ epc = "none"

Init ==
    /\ \E p \in Params, w \in WinProbs :
          self = Martingale(p.initial_balance, p.initial_bet, w, p.table_limit)
    /\ pc = "idle"
    /\ log = <<>>
    /\ returns = <<>>
    /\ last = "init"
    /\ NoEnsemble

\* a caller invokes reset() between calls of simulate()
Reset ==
    /\ pc = "idle"
    /\ self' = reset(self)
    /\ log' = <<>>
    /\ returns' = <<>>
    /\ last' = "reset"
    /\ UNCHANGED <<pc, ens>>

\* simulate() that restarts the bet on entry
SimulateCallResettingBet ==
    /\ pc = "idle"
    /\ Len(returns) < MaxCalls
    /\ pc' = "loop"
    /\ last' = "call"
    /\ self' = [self EXCEPT !.current_bet = self.initial_bet]
    /\ UNCHANGED <<log, returns, ens>>

\* a caller invokes simulate(): control reaches the while test
SimulateCall ==
    /\ pc = "idle"
    /\ Len(returns) < MaxCalls
    /\ pc' = "loop"
    /\ last' = "call"
    /\ UNCHANGED <<self, log, returns, ens>>

\* the while test holds: one round is played
Round ==
    /\ pc = "loop"
    /\ LoopGuard(self)
    /\ self.rounds_played < MaxRounds
    /\ \E draw \in Draws :
          /\ self' = PlayRound(self, draw)
          /\ log' = Append(log, [stake |-> self.current_bet,
                                 win   |-> Trial(draw, self.win_prob)])
    /\ last' = "round"
    /\ UNCHANGED <<pc, returns, ens>>

\* simulate() that restores the base bet before it returns
SimulateReturnResettingBet ==
    /\ pc = "loop"
    /\ ~LoopGuard(self)
    /\ pc' = "idle"
    /\ self' = [self EXCEPT !.current_bet = self.initial_bet]
    /\ returns' = Append(returns, self')
    /\ last' = "return"
    /\ UNCHANGED <<log, ens>>

\* the while test fails: simulate() returns self
SimulateReturn ==
    /\ pc = "loop"
    /\ ~LoopGuard(self)
    /\ pc' = "idle"
    /\ returns' = Append(returns, self)
    /\ last' = "return"
    /\ UNCHANGED <<self, log, ens>>

Next == Reset \/ SimulateCall \/ Round \/ SimulateReturn

Spec == Init /\ [][Next]_vars

\* The constructor validates nothing: an object built from any parameters.
InitAny ==
    /\ \E p \in AnyParams, w \in WinProbs :
          self = Martingale(p.initial_balance, p.initial_bet, w, p.table_limit)
    /\ pc = "idle"
    /\ log = <<>>
    /\ returns = <<>>
    /\ last = "init"
    /\ NoEnsemble

\* Once called, simulate() runs on by itself: the loop takes its next step.
LoopRuns == WF_vars(Round) /\ WF_vars(SimulateReturn)

SpecAny == InitAny /\ [][Next]_vars /\ LoopRuns

----------------------------------------------------------------------------
\* The ensemble of run_simulations.  A list is an object of its own: an
\* attribute holds a reference to it, and append() changes the list in place.

\* a list display that yields the one list of an earlier display
NewListShared(h) == 1

\* [self.initial_balance]: a list display creates a new list object
NewList(h) == Len(h) + 1

\* binding the list contents to a reference
Store(h, ref, list) ==
    IF ref \in DOMAIN h THEN [h EXCEPT ![ref] = list] ELSE Append(h, list)

\* the object sims[i] with the contents of its history list
Obj(i) == [sims[i] EXCEPT !.balance_history = heap[@]]

\* sims[i] after an operation that left it as the object value `to`, with
\* its history in the list `ref`
Put(i, to, ref) ==
    /\ sims' = [j \in 1 .. Len(sims) |->
                  IF j = i THEN [to EXCEPT !.balance_history = ref] ELSE sims[j]]
    /\ heap' = Store(heap, ref, to.balance_history)

\* Martingale(initial_balance, initial_bet, win_prob, table_limit) is
\* evaluated and becomes the next element of the list
Construct ==
    LET made == Martingale(args.initial_balance, args.initial_bet,
                           args.win_prob, args.table_limit)
        ref  == NewList(heap)
    IN  /\ sims' = Append(sims, [made EXCEPT !.balance_history = ref])
        /\ heap' = Store(heap, ref, made.balance_history)
        /\ elog' = Append(elog, <<>>)

\* one iteration of the while loop of simulate() on sims[i]
RoundOf(i) ==
    /\ LoopGuard(Obj(i))
    /\ Obj(i).rounds_played < MaxEnsRounds
    /\ \E draw \in EnsDraws :
          /\ Put(i, PlayRound(Obj(i), draw), sims[i].balance_history)
          /\ elog' = [elog EXCEPT ![i] = Append(@, Trial(draw, Obj(i).win_prob))]

\* reset() on sims[i]
ResetOf(i) ==
    /\ Len(heap) < MaxLists
    /\ Put(i, reset(Obj(i)), NewList(heap))
    /\ elog' = [elog EXCEPT ![i] = <<>>]

InitEnsemble ==
    /\ args \in EnsArgs
    /\ sims = <<>>
    /\ heap = <<>>
    /\ elog = <<>>
    /\ epc = "next"
    /\ self = Martingale(args.initial_balance, args.initial_bet,
                         args.win_prob, args.table_limit)
    /\ pc = "idle"
    /\ log = <<>>
    /\ returns = <<>>
    /\ last = "init"

\* the comprehension that takes its next element without simulate()
DriverConstructNoSimulate ==
    /\ epc = "next"
    /\ Len(sims) < args.sim_count
    /\ Construct
    /\ UNCHANGED <<epc, args, single>>

\* for _ in range(sim_count): the next object is constructed and its
\* simulate() called
DriverConstruct ==
    /\ epc = "next"
    /\ Len(sims) < args.sim_count
    /\ Construct
    /\ epc' = "loop"
    /\ UNCHANGED <<args, single>>

\* the simulate() under way plays a round
DriverRound ==
    /\ epc = "loop"
    /\ RoundOf(Len(sims))
    /\ UNCHANGED <<epc, args, single>>

\* the simulate() under way returns self, the element of the list
DriverCollect ==
    /\ epc = "loop"
    /\ ~LoopGuard(Obj(Len(sims)))
    /\ epc' = "next"
    /\ UNCHANGED <<args, sims, heap, elog, single>>

\* range(sim_count) is exhausted: the list is returned
DriverReturn ==
    /\ epc = "next"
    /\ Len(sims) = args.sim_count
    /\ epc' = "returned"
    /\ UNCHANGED <<args, sims, heap, elog, single>>

NextDriver == DriverConstruct \/ DriverRound \/ DriverCollect \/ DriverReturn

SpecDriver == InitEnsemble /\ [][NextDriver]_vars

\* The processes of an ensemble run side by side: any of them takes the
\* next step.
ParConstruct ==
    /\ Len(sims) < args.sim_count
    /\ Construct
    /\ UNCHANGED <<epc, args, single>>

ParRound ==
    /\ \E i \in 1 .. Len(sims) : RoundOf(i)
    /\ UNCHANGED <<epc, args, single>>

ParReset ==
    /\ \E i \in 1 .. Len(sims) : ~LoopGuard(Obj(i)) /\ ResetOf(i)
    /\ UNCHANGED <<epc, args, single>>

NextParallel == ParConstruct \/ ParRound \/ ParReset

SpecParallel == InitEnsemble /\ [][NextParallel]_vars

----------------------------------------------------------------------------
TypeOK ==
    /\ pc \in {"idle", "loop"}
    /\ self.rounds_played \in 0 .. MaxRounds
    /\ Len(log) = self.rounds_played
    /\ Len(returns) <= MaxCalls
    /\ last \in {"init", "reset", "call", "round", "return"}

----------------------------------------------------------------------------
\* Vocabulary of the properties.  The properties spell the expected values
\* out themselves instead of reusing the operators that model the code.

RECURSIVE Pow2(_)
Pow2(n) == IF n <= 0 THEN 1 ELSE 2 * Pow2(n - 1)

Min(a, b) == IF a <= b THEN a ELSE b

\* number of losing rounds at the end of a round log
RECURSIVE Streak(_)
Streak(l) ==
    IF l = <<>> \/ l[Len(l)].win THEN 0
    ELSE 1 + Streak(SubSeq(l, 1, Len(l) - 1))

\* number of doublings a positive bet needs to exceed the amount x
RECURSIVE Doublings(_, _)
Doublings(bet, x) == IF bet > x THEN 0 ELSE 1 + Doublings(2 * bet, x)

NoWin(l) == \A i \in 1 .. Len(l) : ~l[i].win

\* the bet in force right after round i
BetAfter(i) == IF i < Len(log) THEN log[i + 1].stake ELSE self.current_bet

\* the while test, written out
CanPlay == self.balance >= self.current_bet /\ self.table_limit >= self.current_bet

----------------------------------------------------------------------------
\* C1: in every reachable state (after construction, after any number of
\* rounds, after any reset()) the history has rounds_played + 1 entries and
\* its first entry is the initial balance.
C1_HistoryShape ==
    /\ Len(self.balance_history) = self.rounds_played + 1
    /\ self.balance_history[1] = self.initial_balance

C1_Witness ==
    /\ last = "return"
    /\ self.rounds_played >= 3
    /\ Len(self.balance_history) = 4

\* C2 as stated: for every outcome sequence the number of rounds played is
\* at most the number of doublings the bet needs to exceed
\* min(table_limit, initial_balance).
C2_Original ==
    self.rounds_played
        <= Doublings(self.initial_bet, Min(self.table_limit, self.initial_balance))

\* C2 amended: when no round is won, simulate() halts within the number of
\* doublings the bet needs to exceed min(table_limit, initial_balance); a won
\* round restarts the bet, so other outcome sequences have no such bound.
C2_AllLossesHalt ==
    LET d == Doublings(self.initial_bet, Min(self.table_limit, self.initial_balance))
    IN  NoWin(log) =>
            /\ self.rounds_played <= d
            /\ self.rounds_played = d => ~CanPlay

C2_Witness ==
    /\ NoWin(log)
    /\ last = "return"
    /\ self.rounds_played = 3
    /\ self.rounds_played
         = Doublings(self.initial_bet, Min(self.table_limit, self.initial_balance))

\* C3: the current bet is initial_bet * 2^k, k being the number of consecutive
\* losses since the last win, or since construction or reset(); so it is
\* initial_bet right after a win, a construction or a reset().
C3_BetIsDoubled ==
    /\ self.current_bet = self.initial_bet * Pow2(Streak(log))
    /\ (log # <<>> /\ log[Len(log)].win) => self.current_bet = self.initial_bet
    /\ last \in {"init", "reset"} => self.current_bet = self.initial_bet

C3_Witness ==
    /\ Len(log) >= 4
    /\ log[2].win
    /\ Streak(log) = 2
    /\ self.current_bet = 4 * self.initial_bet

\* C4: a round is played iff the while test holds when it is made: every
\* round played had balance >= current_bet and table_limit >= current_bet,
\* control at a test that holds plays a round, simulate() returns only where
\* the test fails, and no stake exceeded the balance or the table limit.
C4_StepRule ==
    /\ (self'.rounds_played = self.rounds_played + 1) => CanPlay
    /\ (pc = "loop" /\ CanPlay) => self'.rounds_played = self.rounds_played + 1
    /\ (pc = "loop" /\ pc' = "idle") => (~CanPlay /\ self' = self)

C4_StateRule ==
    /\ last = "return" =>
          (self.balance < self.current_bet \/ self.table_limit < self.current_bet)
    /\ \A i \in 1 .. Len(log) :
          /\ log[i].stake <= self.balance_history[i]
          /\ log[i].stake <= self.table_limit

C4_GuardIsSoleStop == [][C4_StepRule]_vars /\ []C4_StateRule

\* stopped by the table limit alone, after some rounds
C4_Witness ==
    /\ last = "return"
    /\ self.rounds_played >= 2
    /\ self.table_limit < self.current_bet
    /\ self.balance >= self.current_bet

C6_LossRound ==
    \A i \in 1 .. Len(log) :
        ~log[i].win =>
            /\ self.balance_history[i + 1] = self.balance_history[i] - log[i].stake
            /\ BetAfter(i) = 2 * log[i].stake

C6_Witness ==
    /\ Len(log) >= 3
    /\ ~log[2].win /\ ~log[3].win
    /\ self.balance_history[4] = self.balance_history[3] - 2 * log[2].stake

\* C7: reset() in any state a caller can reach gives balance =
\* initial_balance, current_bet = initial_bet, balance_history =
\* [initial_balance], rounds_played = 0 and keeps the parameters; a second
\* reset() changes nothing, and the result is the freshly constructed object.
C7_Fresh(s, old) ==
    /\ s.balance = old.initial_balance
    /\ s.current_bet = old.initial_bet
    /\ s.balance_history = <<old.initial_balance>>
    /\ s.rounds_played = 0
    /\ s.initial_balance = old.initial_balance
    /\ s.initial_bet = old.initial_bet
    /\ s.win_prob = old.win_prob
    /\ s.table_limit = old.table_limit

C7_StepRule == (last' = "reset") => C7_Fresh(self', self)

C7_StateRule ==
    /\ last \in {"init", "reset"} => C7_Fresh(self, self)
    /\ reset(reset(self)) = reset(self)
    /\ reset(self)
         = Martingale(self.initial_balance, self.initial_bet,
                      self.win_prob, self.table_limit)

C7_ResetRestores == [][C7_StepRule]_vars /\ []C7_StateRule

C7_Witness ==
    /\ last = "reset"
    /\ self.balance_history = <<self.initial_balance>>
    /\ self.rounds_played = 0

\* C8 as stated: the number of consecutive losses never exceeds
\* log2(min(initial_balance, table_limit) / initial_bet).
C8_Original ==
    Streak(log) >= 1 =>
        Pow2(Streak(log)) * self.initial_bet
            <= Min(self.initial_balance, self.table_limit)

\* C8 amended: a streak of n consecutive losses that began at balance B has
\* n <= log2(table_limit / initial_bet) + 1 and n <= log2(B / initial_bet + 1),
\* i.e. 2^(n-1) * initial_bet <= table_limit and (2^n - 1) * initial_bet <= B.
C8_StreakBound ==
    LET n == Streak(log)
        B == self.balance_history[Len(log) - n + 1]
    IN  n >= 1 =>
            /\ Pow2(n - 1) * self.initial_bet <= self.table_limit
            /\ (Pow2(n) - 1) * self.initial_bet <= B

\* a streak longer than the stated bound, begun above the initial balance
C8_Witness ==
    /\ Streak(log) = 3
    /\ Len(log) > 3
    /\ self.balance_history[Len(log) - 2] > self.initial_balance
    /\ Pow2(3) * self.initial_bet > Min(self.initial_balance, self.table_limit)

\* C9 as stated: a second simulate() without an intervening reset() leaves
\* a longer history than the first.
C9_Original ==
    Len(returns) >= 2 =>
        Len(returns[2].balance_history) > Len(returns[1].balance_history)

\* C9 amended: a second simulate() without an intervening reset() starts
\* from the balance and bet the first call ended with, finds the while test
\* false there, plays no round and returns the object as the first call left
\* it: the history is not extended.
C9_StepRule ==
    /\ (last' = "call") => self' = self
    /\ (pc = "loop" /\ Len(returns) >= 1) => (self' = self /\ ~CanPlay)

C9_StateRule ==
    /\ (Len(returns) >= 1 /\ pc = "loop") => self = returns[1]
    /\ Len(returns) >= 2 => returns[2] = returns[1]

C9_SecondCallPlaysNothing == [][C9_StepRule]_vars /\ []C9_StateRule

C9_Witness ==
    /\ Len(returns) = 2
    /\ last = "return"
    /\ returns[1].rounds_played >= 2
    /\ returns[2].balance_history = returns[1].balance_history

\* C10: with initial balance 100, initial bet 1 and table limit 8, whatever
\* the outcomes: the history starts at 100; a lost first round leaves balance
\* 99 and bet 2; stakes are 1, 2, 4 or 8 and at most 4 losses follow one
\* another; a bet above 8 is 16; and once the bet exceeds 8 or the balance is
\* below the bet no further round is played.
InScenario ==
    /\ self.initial_balance = Scenario.initial_balance
    /\ self.initial_bet = Scenario.initial_bet
    /\ self.table_limit = Scenario.table_limit

C10_StateRule ==
    InScenario =>
        /\ self.balance_history[1] = 100
        /\ (Len(log) >= 1 /\ ~log[1].win) =>
               (self.balance_history[2] = 99 /\ BetAfter(1) = 2)
        /\ \A i \in 1 .. Len(log) : log[i].stake \in {1, 2, 4, 8}
        /\ Streak(log) <= 4
        /\ self.current_bet > 8 => self.current_bet = 16

C10_StepRule ==
    (InScenario /\ (self.current_bet > 8 \/ self.balance < self.current_bet))
        => self'.rounds_played <= self.rounds_played

C10_Scenario == [][C10_StepRule]_vars /\ []C10_StateRule

C10_Witness ==
    /\ InScenario
    /\ Len(log) = 5
    /\ log[1].win
    /\ Streak(log) = 4
    /\ self.current_bet = 16
    /\ self.balance = 86
    /\ last = "return"

\* C11: with win_prob = 1.0 and a first round that can be played
\* (initial_bet <= initial_balance and initial_bet <= table_limit) simulate()
\* never returns: every round is won, the bet stays initial_bet, the while
\* test holds before every round, and each history entry is its predecessor
\* plus initial_bet.
AlwaysWins ==
    /\ self.win_prob = ProbScale
    /\ self.initial_bet <= self.initial_balance
    /\ self.initial_bet <= self.table_limit

C11_NeverReturns ==
    AlwaysWins =>
        /\ returns = <<>> /\ last # "return"
        /\ self.current_bet = self.initial_bet
        /\ CanPlay
        /\ \A i \in 1 .. Len(log) : log[i].win
        /\ \A i \in 1 .. self.rounds_played :
              /\ self.balance_history[i + 1]
                   = self.balance_history[i] + self.initial_bet
              /\ self.balance_history[i + 1] > self.balance_history[i]

C11_Witness ==
    /\ AlwaysWins
    /\ pc = "loop"
    /\ self.rounds_played >= 5
    /\ self.balance = self.initial_balance + 5 * self.initial_bet

\* C15: no round and no reset() changes initial_balance, initial_bet,
\* win_prob or table_limit, and a round changes balance_history only by
\* appending one element: the earlier entries keep index and value.
C15_StepRule ==
    /\ self'.initial_balance = self.initial_balance
    /\ self'.initial_bet = self.initial_bet
    /\ self'.win_prob = self.win_prob
    /\ self'.table_limit = self.table_limit
    /\ (last' = "round" /\ self' # self) =>
          /\ Len(self'.balance_history) = Len(self.balance_history) + 1
          /\ \A i \in 1 .. Len(self.balance_history) :
                self'.balance_history[i] = self.balance_history[i]

C15_Frame == [][C15_StepRule]_vars

C15_Witness ==
    /\ last = "round"
    /\ Len(self.balance_history) >= 4
    /\ self.current_bet > self.initial_bet

\* C16: once simulate() has returned, every further simulate() without a
\* reset() plays no round and leaves balance, current_bet, balance_history
\* and rounds_played as they were.
C16_Mutable(s) ==
    <<s.balance, s.current_bet, s.balance_history, s.rounds_played>>

C16_StepRule ==
    (returns # <<>> /\ last' # "reset") =>
        C16_Mutable(self') = C16_Mutable(self)

C16_StateRule ==
    /\ \A k \in 1 .. Len(returns) : C16_Mutable(returns[k]) = C16_Mutable(returns[1])
    /\ returns # <<>> =>
          /\ C16_Mutable(self) = C16_Mutable(returns[1])
          /\ Len(log) = returns[1].rounds_played

C16_TerminalStable == [][C16_StepRule]_vars /\ []C16_StateRule

C16_Witness ==
    /\ Len(returns) = 3
    /\ last = "return"
    /\ self.rounds_played >= 2
    /\ C16_Mutable(returns[3]) = C16_Mutable(returns[1])

\* C18: between rounds, balance = initial_balance + W * initial_bet
\* - (current_bet - initial_bet), W being the number of rounds won; so a win
\* that ends a losing streak leaves the balance initial_bet above the balance
\* at the start of the streak.
Wins(l) == Cardinality({i \in 1 .. Len(l) : l[i].win})

InvalidParams ==
    \/ self.initial_balance <= 0
    \/ self.initial_bet <= 0
    \/ self.table_limit <= 0

C14_Covered ==
    /\ self.initial_bet <= self.initial_balance
    /\ self.initial_bet <= self.table_limit

C17_NeverNegative ==
    (self.initial_balance >= 0 /\ self.initial_bet > 0) =>
        /\ self.balance >= 0
        /\ \A i \in 1 .. Len(self.balance_history) : self.balance_history[i] >= 0
        /\ \A i \in 1 .. Len(log) : log[i].stake <= self.balance_history[i]

C17_Witness ==
    /\ self.initial_bet > 0
    /\ self.rounds_played >= 3
    /\ self.balance = 0
    /\ last = "return"

\* C19: with initial_bet > 0 the while test holds right after a won round;
\* so a process that returns after at least one round lost its last round,
\* has current_bet >= 2 * initial_bet and a balance below the one before
\* that round.
C19_StopsAfterLoss ==
    self.initial_bet > 0 =>
        /\ (log # <<>> /\ log[Len(log)].win) => (CanPlay /\ returns = <<>>)
        /\ (returns # <<>> /\ self.rounds_played >= 1) =>
              /\ ~log[Len(log)].win
              /\ self.current_bet >= 2 * self.initial_bet
              /\ self.balance < self.balance_history[Len(self.balance_history) - 1]

C19_Witness ==
    /\ self.initial_bet > 0
    /\ last = "return"
    /\ Len(log) >= 3
    /\ log[Len(log) - 1].win
    /\ ~log[Len(log)].win
    /\ self.current_bet = 2 * self.initial_bet

\* the sequential run of an object from construction through the outcomes
\* ws, each produced by a draw that gives it
RECURSIVE Replay(_, _)
Replay(s, ws) ==
    IF ws = <<>> THEN s
    ELSE LET draw == CHOOSE d \in Draws : Trial(d, s.win_prob) = Head(ws)
         IN  Replay(PlayRound(s, draw), Tail(ws))

\* the while test on sims[i], written out
CanPlayOf(i) ==
    /\ Obj(i).balance >= Obj(i).current_bet
    /\ Obj(i).table_limit >= Obj(i).current_bet

\* C12: run_simulations returns exactly sim_count objects in construction
\* order, each built from the four arguments and each at a failed while test;
\* while it runs, only the newest object plays rounds and every earlier one
\* is finished and stays as it is.
C12_StateRule ==
    /\ Len(sims) <= args.sim_count
    /\ epc = "returned" =>
          /\ Len(sims) = args.sim_count
          /\ \A i \in 1 .. Len(sims) : ~CanPlayOf(i)
    /\ \A i \in 1 .. Len(sims) :
          /\ sims[i].initial_balance = args.initial_balance
          /\ sims[i].initial_bet = args.initial_bet
          /\ sims[i].win_prob = args.win_prob
          /\ sims[i].table_limit = args.table_limit
          /\ Obj(i).balance_history[1] = args.initial_balance
          /\ i < Len(sims) => ~CanPlayOf(i)
    /\ \A i, j \in 1 .. Len(sims) :
          i < j => sims[i].balance_history < sims[j].balance_history

C12_StepRule ==
    \A i \in 1 .. Len(sims) :
        /\ sims'[i].balance_history = sims[i].balance_history
        /\ Obj(i)' # Obj(i) =>
              /\ i = Len(sims) /\ Len(sims') = Len(sims)
              /\ \A j \in 1 .. (i - 1) : ~CanPlayOf(j)

C12_Driver == [][C12_StepRule]_vars /\ []C12_StateRule

C12_Witness ==
    /\ epc = "returned"
    /\ Len(sims) = 2
    /\ Obj(1).rounds_played = 2
    /\ Obj(2).rounds_played = 1
    /\ Obj(1).balance # Obj(2).balance

\* C13: the objects of an ensemble share no list, a round or reset() of one
\* leaves every other one as it is, and however their steps interleave each
\* object is in the state the sequential run of its own draws gives.
C13_StateRule ==
    /\ \A i, j \in 1 .. Len(sims) :
          i # j => sims[i].balance_history # sims[j].balance_history
    /\ \A i \in 1 .. Len(sims) :
          Obj(i) = Replay(Martingale(args.initial_balance, args.initial_bet,
                                     args.win_prob, args.table_limit), elog[i])

C13_StepRule ==
    \A i, j \in 1 .. Len(sims) :
        (i # j /\ Obj(i)' # Obj(i)) => Obj(j)' = Obj(j)

C13_Independent == [][C13_StepRule]_vars /\ []C13_StateRule

C13_Witness ==
    /\ Len(sims) = 2
    /\ Len(heap) = 3
    /\ Obj(1).rounds_played = 2
    /\ Obj(2).rounds_played = 2
    /\ Obj(1).balance_history # Obj(2).balance_history

====
